---- MODULE Spec2Model ----
(***************************************************************************)
(* TensorBuilder: the application shell (tensorbuilder/__init__.py), the   *)
(* main window's model/view/controller (windows/mainwindow) and the       *)
(* extended QMainWindow (utils/pyqt5.py).                                   *)
(*                                                                         *)
(* Spec     main() from launch to return, with the worker thread and the   *)
(*          user's events while the event loop runs.                       *)
(* LiveSpec Spec with the scheduling of the two threads stated as weak     *)
(*          fairness.                                                      *)
(* WinSpec  a constructed MainWindow driven through its public operations  *)
(*          in any order (show, close, clicks, key, mouse, event filter).  *)
(***************************************************************************)
EXTENDS Integers, Sequences, FiniteSets, TLC

VARIABLES
    argv,             \* sys.argv[1:], the command line of this launch
    args,             \* the Namespace parse_args returned (main's local `args`)
    app_args,         \* Application._args: <<>> before __init__, <<namespace>> after
    pc,               \* where main is
    retval,           \* what main handed back to its caller
    uncaught,         \* the exception that left main, "none" if none did
    exitStatus,       \* the status a SystemExit leaving main carries
    errlog,           \* exceptions logged by the catch decorator
    stdout,           \* lines printed on standard output
    console,          \* whether a console was attached for log output
    qapp,             \* whether the QApplication object exists
    aboutToQuitSlots, \* slots connected to qapp.aboutToQuit
    aboutToQuitFired, \* whether aboutToQuit has been emitted
    quitRequested,    \* whether the event loop has been asked to exit
    execResult,       \* the value qapp.exec_() yielded
    thread,           \* Application._loader_thread
    exited,           \* the thread's quit flag, set by QThread.quit()
    win,              \* the view's window: constructed, visible, signals emitted
    connections,      \* signal/slot connections of the view and the controller
    clicks,           \* the navigation buttons the user clicked, in order
    emitted,          \* the view's notifications fired, in order
    log,              \* the controller's log lines, in order
    lastOp,           \* the last operation applied to the window
    everShown,        \* whether show() has ever been called
    nEvents,          \* number of user events so far
    threadStarts,     \* how many times a worker thread has been started
    quitCalls,        \* how many times Application.quit has run
    tree,             \* the widget tree: parents, grid placements, navbar items
    objects,          \* the objects MainWindow() constructed, in order
    trace,            \* what the main thread did for the user's events, in order
    handled,          \* what the last eventFilter call returned
    lastEvent         \* the event last delivered to the window, and for which widget

vars == <<argv, args, app_args, pc, retval, uncaught, exitStatus, errlog, stdout,
          console, qapp, aboutToQuitSlots, aboutToQuitFired, quitRequested,
          execResult, thread, exited, win, connections, clicks, emitted, log,
          lastOp, everShown, nEvents, threadStarts, quitCalls, tree, objects, trace,
          handled, lastEvent>>

argVars    == <<argv, args, app_args>>
outVars    == <<stdout, console>>
resultVars == <<retval, uncaught, exitStatus, errlog>>
loopVars   == <<aboutToQuitSlots, aboutToQuitFired, quitRequested, execResult>>
threadVars == <<thread, exited, threadStarts, quitCalls>>
builtVars  == <<connections, tree, objects>>
filterVars == <<handled, lastEvent>>
winVars    == <<win, builtVars, lastOp, everShown, filterVars>>
clickVars  == <<clicks, emitted, log, nEvents, trace>>

(***************************************************************************)
(* Bounds                                                                  *)
(***************************************************************************)
MaxArgs == 2
MaxEvents == 2
\* How many times Application.quit is called directly.
MaxQuits == 2

(***************************************************************************)
(* Command line: parse_args                                                *)
(***************************************************************************)
\* The tokens a command line is drawn from: the four spellings of the two
\* flags, the parser's built-in help flag and a flag the parser does not know.
Tokens == {"-v", "--version", "-V", "--verbose", "-h", "--bogus"}

CommandLines == UNION {[1..n -> Tokens] : n \in 0..MaxArgs}

\* add_argument("-v", "--version", action="store_true")
VersionFlags == {"-v", "--version"}

\* add_argument("-V", "--verbose", action="store_true")
VerboseFlags == {"-V", "--verbose"}

\* The help option every ArgumentParser adds by default.
HelpFlags == {"-h", "--help"}

\* store_true's default: both attributes False.
EmptyNamespace == [version |-> FALSE, verbose |-> FALSE]

\* One option string consumed by the parser: store_true sets its attribute,
\* help exits with status 0, an unknown option is set aside as an extra.
RECURSIVE ParseFrom(_, _, _, _)
ParseFrom(av, i, ns, extras) ==
    IF i > Len(av)
    THEN IF extras = <<>>
         THEN [outcome |-> "ok", status |-> 0, ns |-> ns]
         ELSE [outcome |-> "exit", status |-> 2, ns |-> ns]
    ELSE IF av[i] \in HelpFlags
         THEN [outcome |-> "exit", status |-> 0, ns |-> ns]
    ELSE IF av[i] \in VersionFlags
         THEN ParseFrom(av, i + 1, [ns EXCEPT !.version = TRUE], extras)
    ELSE IF av[i] \in VerboseFlags
         THEN ParseFrom(av, i + 1, [ns EXCEPT !.verbose = TRUE], extras)
    ELSE ParseFrom(av, i + 1, ns, Append(extras, av[i]))

\* A parser in which the short spellings of the two flags are swapped.
parse_args_swapped(av) ==
    LET r == ParseFrom(av, 1, EmptyNamespace, <<>>)
    IN  [r EXCEPT !.ns = [version |-> \E i \in DOMAIN av : av[i] \in {"-V", "--version"},
                          verbose |-> \E i \in DOMAIN av : av[i] \in {"-v", "--verbose"}]]

parse_args(av) == ParseFrom(av, 1, EmptyNamespace, <<>>)

(***************************************************************************)
(* The catch decorator on main                                             *)
(***************************************************************************)
\* A decorator that lets every exception through.
catch_nothing(exc) == FALSE

\* A decorator that swallows every exception, SystemExit included.
catch_everything(exc) == TRUE

\* @logger.catch with its defaults catches the subclasses of Exception;
\* SystemExit derives from BaseException and passes through.
catch(exc) == exc = "Exception"

NotReturned == [kind |-> "unset", code |-> 0]
ReturnedNone == [kind |-> "None", code |-> 0]
ReturnedInt(n) == [kind |-> "int", code |-> n]

\* An exception `exc` raised inside main reaches the decorator: a caught one is
\* logged and main returns the decorator's default (None); any other leaves main.
MainRaises(exc, status) ==
    IF catch(exc)
    THEN /\ pc' = "returned"
         /\ errlog' = Append(errlog, exc)
         /\ retval' = ReturnedNone
         /\ UNCHANGED <<uncaught, exitStatus>>
    ELSE /\ pc' = "propagated"
         /\ uncaught' = exc
         /\ exitStatus' = status
         /\ UNCHANGED <<errlog, retval>>

(***************************************************************************)
(* The main window: widgets, signals and slots                             *)
(***************************************************************************)
\* The navigation buttons, in the order _setup_navbar creates them.
Buttons == <<"home", "builder", "configuration", "help">>

ButtonSet == {Buttons[i] : i \in DOMAIN Buttons}

\* setObjectName("home_button"), ... on the four QPushButtons.
ObjectName(b) == b \o "_button"

\* The signals of a QPushButton.
ButtonSignals == <<"clicked", "pressed", "released", "toggled">>

\* MainWindowView.home_button_clicked, ...: the view's notifications.
ViewSignal(b) == b \o "_button_clicked"

\* View slots named the way connectSlotsByName looks for them.
ViewSlot_autoconnect(b) == "on_" \o b \o "_button_clicked"

\* MainWindowView._on_home_button_clicked, ...: the view's slots.
ViewSlot(b) == "_on_" \o b \o "_button_clicked"

\* MainWindow._on_home_button_clicked, ...: the controller's slots.
ControllerSlot(b) == "_on_" \o b \o "_button_clicked"

\* logger.info("User clicked on the home button"), ...
LogLine(b) == "User clicked on the " \o b \o " button"

Connection(sender, signal, receiver, slot) ==
    [sender |-> sender, signal |-> signal, receiver |-> receiver, slot |-> slot]

\* The concatenation of a sequence of sequences.
RECURSIVE Flatten(_)
Flatten(ss) == IF ss = <<>> THEN <<>> ELSE Head(ss) \o Flatten(Tail(ss))

\* The (button, signal) pairs connectSlotsByName goes through: every signal of
\* every named child button.
ChildSignals ==
    Flatten([i \in DOMAIN Buttons |->
                [j \in DOMAIN ButtonSignals |-> <<Buttons[i], ButtonSignals[j]>>]])

\* QMetaObject.connectSlotsByName(TensorBuilder): every slot of the window
\* named on_<child object name>_<signal name> is connected to that signal.
connectSlotsByName ==
    LET Matching == SelectSeq(ChildSignals,
                        LAMBDA p : "on_" \o ObjectName(p[1]) \o "_" \o p[2] = ViewSlot(p[1]))
    IN  [k \in DOMAIN Matching |->
            Connection(ObjectName(Matching[k][1]), Matching[k][2], "view",
                       ViewSlot(Matching[k][1]))]

\* MainWindowView._connect_signals: each button's clicked to the view's slot.
View_connect_signals ==
    [i \in DOMAIN Buttons |->
        Connection(ObjectName(Buttons[i]), "clicked", "view", ViewSlot(Buttons[i]))]

\* A controller that subscribes each of its handlers twice.
Controller_connect_signals_twice ==
    [i \in 1..(2 * Len(Buttons)) |->
        Connection("view", ViewSignal(Buttons[(i + 1) \div 2]), "controller",
                   ControllerSlot(Buttons[(i + 1) \div 2]))]

\* MainWindow._connect_signals: each view notification to the controller's slot.
Controller_connect_signals ==
    [i \in DOMAIN Buttons |->
        Connection("view", ViewSignal(Buttons[i]), "controller", ControllerSlot(Buttons[i]))]

\* MainWindow.__init__: the view is built (setup_ui ends with
\* connectSlotsByName, then the view connects), then the controller connects.
MainWindow_connections ==
    connectSlotsByName \o View_connect_signals \o Controller_connect_signals

\* MainWindow.__init__: one MainWindowModel, one MainWindowView.
MainWindow_objects == <<"MainWindowModel", "MainWindowView">>

\* The thread an object lives on: the loader was moved to the worker thread,
\* everything else was created on, and stays on, the main thread.
ThreadOf(obj) == IF obj = "loader" THEN "worker" ELSE "main"

\* Connections that all wait for the event loop.
ConnectionType_queued(c) == "queued"

\* connect() without a type: direct when sender and receiver live on the same
\* thread, queued otherwise.
ConnectionType(c) ==
    IF ThreadOf(c.sender) = ThreadOf(c.receiver) THEN "direct" ELSE "queued"

\* The connections a signal of a sender reaches, in connection order.
Receivers(conns, sender, signal) ==
    SelectSeq(conns, LAMBDA c : c.sender = sender /\ c.signal = signal)

\* The view slot _on_X_button_clicked emits the view's X_button_clicked.
ViewSlotEmits(slot) == ViewSignal(CHOOSE b \in ButtonSet : ViewSlot(b) = slot)

\* The controller slot _on_X_button_clicked logs the line for button X.
ControllerSlotLogs(slot) == LogLine(CHOOSE b \in ButtonSet : ControllerSlot(b) = slot)

\* The view notifications fired by one click on button b: one per view slot
\* connected to the button's clicked signal.
NotificationsFired(conns, b) ==
    LET r == Receivers(conns, ObjectName(b), "clicked")
    IN  [k \in DOMAIN r |-> ViewSlotEmits(r[k].slot)]

\* The lines logged by the controller slots one emission of a view signal runs.
HandlersRun(conns, signal) ==
    LET r == Receivers(conns, "view", signal)
    IN  [k \in DOMAIN r |-> ControllerSlotLogs(r[k].slot)]

\* The lines logged by one click on b: direct connections deliver each fired
\* notification to its handlers before the next is fired.
HandlersRunByClick(conns, b) ==
    LET n == NotificationsFired(conns, b)
    IN  Flatten([k \in DOMAIN n |-> HandlersRun(conns, n[k])])

\* What running the controller's handlers for one emission of a view signal
\* records, for the connections of the given type.
HandlerTrace(conns, signal, type) ==
    LET r == SelectSeq(Receivers(conns, "view", signal), LAMBDA c : ConnectionType(c) = type)
    IN  [k \in DOMAIN r |-> <<"log", ControllerSlotLogs(r[k].slot)>>]

\* What one view slot records when it runs: the emission, then the handlers
\* reached directly; handlers reached through a queue run after it returns.
ViewSlotTrace(conns, slot, type) ==
    IF type = "direct"
    THEN <<<<"emit", ViewSlotEmits(slot)>>>> \o HandlerTrace(conns, ViewSlotEmits(slot), "direct")
    ELSE HandlerTrace(conns, ViewSlotEmits(slot), "queued")

\* What the view slots reached by a click on b record, for the button
\* connections of type outer and what they deliver inline or later.
SlotsTrace(conns, b, outer, type) ==
    LET r == SelectSeq(Receivers(conns, ObjectName(b), "clicked"),
                       LAMBDA c : ConnectionType(c) = outer)
    IN  Flatten([k \in DOMAIN r |-> ViewSlotTrace(conns, r[k].slot, type)])

\* The record of one click on b: the click begins, everything delivered
\* directly happens, the click's processing ends; whatever was queued is
\* delivered afterwards from the event loop.
ClickTrace(conns, b) ==
    <<<<"click", b>>>>
        \o SlotsTrace(conns, b, "direct", "direct")
        \o <<<<"done", b>>>>
        \o SlotsTrace(conns, b, "direct", "queued")
        \o SlotsTrace(conns, b, "queued", "direct")
        \o SlotsTrace(conns, b, "queued", "queued")

(***************************************************************************)
(* The widget tree: UiMainWindow.setup_ui                                  *)
(***************************************************************************)
\* Before setup_ui: no widget, no layout, nothing placed.
NoTree ==
    [parent |-> [w \in {} |-> ""], layoutOf |-> [l \in {} |-> ""],
     items |-> [l \in {} |-> <<>>], grid |-> {}, builds |-> 0]

\* QWidget(p), QFrame(p), QPushButton(p), QLabel(p): a widget created as a
\* child of p.
NewWidget(t, w, p) == [t EXCEPT !.parent = (w :> p) @@ t.parent]

\* QGridLayout(owner), QVBoxLayout(owner), QHBoxLayout(owner): a layout set on
\* the widget owner, empty.
NewLayout(t, l, owner) ==
    [t EXCEPT !.layoutOf = (l :> owner) @@ t.layoutOf, !.items = (l :> <<>>) @@ t.items]

\* An addWidget that leaves the widget with the parent it was created with.
addWidget_keeps_parent(t, l, w) == [t EXCEPT !.items[l] = Append(@, w)]

\* layout.addWidget(w): w joins the layout's items and becomes a child of the
\* widget the layout is set on.
addWidget(t, l, w) ==
    [t EXCEPT !.items[l] = Append(@, w), !.parent[w] = t.layoutOf[l]]

\* layout.addItem(spacer): a spacer joins the layout's items; it is no widget.
addItem(t, l, item) == [t EXCEPT !.items[l] = Append(@, item)]

\* gridLayout.addWidget(w, row, column, rowSpan, columnSpan).
addGridWidget(t, l, w, row, col, rowSpan, colSpan) ==
    LET t1 == addWidget(t, l, w)
    IN  [t1 EXCEPT !.grid = @ \cup {[widget |-> w, row |-> row, col |-> col,
                                     rowSpan |-> rowSpan, colSpan |-> colSpan]}]

\* UiMainWindow._setup_main_container.
setup_main_container(t) == NewWidget(t, "main_container", "central_widget")

\* UiMainWindow._setup_navbar: the frame, its layout, the four buttons, the
\* spacer and the copyright label.
setup_navbar(t) ==
    LET t1 == NewWidget(t, "navbar", "main_container")
        t2 == NewLayout(t1, "navbar_layout", "navbar")
        t3 == NewWidget(t2, "home_button", "navbar")
        t4 == NewWidget(t3, "builder_button", "navbar")
        t5 == NewWidget(t4, "configuration_button", "navbar")
        t6 == NewWidget(t5, "help_button", "navbar")
        t7 == NewWidget(t6, "copyright_label", "navbar")
        t8 == addWidget(t7, "navbar_layout", "home_button")
        t9 == addWidget(t8, "navbar_layout", "builder_button")
        t10 == addWidget(t9, "navbar_layout", "configuration_button")
        t11 == addWidget(t10, "navbar_layout", "help_button")
        t12 == addItem(t11, "navbar_layout", "navbar_vertical_spacer")
    IN  addWidget(t12, "navbar_layout", "copyright_label")

\* UiMainWindow._setup_menubar: the frame, its layout, the logo and the
\* menubar's own container.
setup_menubar(t) ==
    LET t1 == NewWidget(t, "menubar", "central_widget")
        t2 == NewLayout(t1, "menubar_layout", "menubar")
        t3 == NewWidget(t2, "app_logo", "menubar")
        t4 == NewWidget(t3, "menubar_main_container", "menubar")
        t5 == addWidget(t4, "menubar_layout", "app_logo")
    IN  addWidget(t5, "menubar_layout", "menubar_main_container")

\* UiMainWindow.setup_ui: the central widget and its grid, the three regions,
\* their places in the grid, setCentralWidget.
setup_ui(t) ==
    LET t1 == NewWidget(t, "central_widget", "TensorBuilder")
        t2 == NewLayout(t1, "central_layout", "central_widget")
        t3 == setup_main_container(t2)
        t4 == setup_navbar(t3)
        t5 == setup_menubar(t4)
        t6 == addGridWidget(t5, "central_layout", "menubar", 0, 0, 1, 2)
        t7 == addGridWidget(t6, "central_layout", "main_container", 1, 1, 1, 1)
        t8 == addGridWidget(t7, "central_layout", "navbar", 1, 0, 1, 1)
    IN  [t8 EXCEPT !.parent["central_widget"] = "TensorBuilder", !.builds = @ + 1]

\* The children of widget p.
Children(t, p) == {w \in DOMAIN t.parent : t.parent[w] = p}

(***************************************************************************)
(* The window: utils.pyqt5.QMainWindow and MainWindow.show / close         *)
(***************************************************************************)
\* signals: the names of the signals the window has emitted, in order;
\* payloads: the arguments each emission carried.
NoWindow == [constructed |-> FALSE, visible |-> FALSE, signals |-> <<>>, payloads |-> <<>>]

\* MainWindowView(): a constructed window is hidden until it is shown.
NewWindow == [constructed |-> TRUE, visible |-> FALSE, signals |-> <<>>, payloads |-> <<>>]

\* The event types handed to the event filter.
EventTypes == {"Enter", "Leave", "MouseMove", "FocusIn"}

\* An event: its type and what tells it from others of its type.
Event(type, detail) == [type |-> type, detail |-> detail]

\* The QCloseEvent the toolkit makes when the window is asked to close.
QCloseEvent == Event("Close", "window")

\* The key presses, mouse releases and filtered events the user can cause.
KeyEvents == {Event("KeyPress", k) : k \in {"Key_A", "Key_Escape"}}

MouseEvents == {Event("MouseButtonRelease", b) : b \in {"LeftButton", "RightButton"}}

FilterEvents == {Event(t, "pointer") : t \in EventTypes}

\* The widgets an event filter can be told about.
Senders == {"home_button", "navbar"}

\* The event last delivered to the window, and the widget it was meant for.
Delivered(sender, event) == [sender |-> sender, event |-> event]

NoEvent == Delivered("none", Event("None", "none"))

\* MainWindow.show: self._view.show().
show(w) == [w EXCEPT !.visible = TRUE]

\* QMainWindow.closeEvent: emits closed; the event stays accepted.
closeEvent(w, event) ==
    [w EXCEPT !.signals = Append(@, "closed"), !.payloads = Append(@, <<event>>)]

\* A close that hides the window without delivering the close event.
close_silently(w) == [w EXCEPT !.visible = FALSE]

\* MainWindow.close: self._view.close(). The toolkit delivers the close event
\* to closeEvent and, the event being accepted, hides the window.
close(w) == [closeEvent(w, QCloseEvent) EXCEPT !.visible = FALSE]

\* A key handler that also closes the window.
keyPressEvent_closes(w, event) ==
    [w EXCEPT !.signals = Append(@, "keypressed"), !.payloads = Append(@, <<event>>),
              !.visible = FALSE]

\* QMainWindow.keyPressEvent: emits keypressed.
keyPressEvent(w, event) ==
    [w EXCEPT !.signals = Append(@, "keypressed"), !.payloads = Append(@, <<event>>)]

\* QMainWindow.mouseReleaseEvent: emits mouse_released.
mouseReleaseEvent(w, event) ==
    [w EXCEPT !.signals = Append(@, "mouse_released"), !.payloads = Append(@, <<event>>)]

\* QMainWindow.eventFilter: emits mouse_hover_changed and reports the event
\* handled for Enter and Leave; otherwise reports it not handled.
\* An event filter that claims every event it is shown.
eventFilter_handles_all(w, sender, event) ==
    [w |-> [w EXCEPT !.signals = Append(@, "mouse_hover_changed"),
                     !.payloads = Append(@, <<<<sender, event>>>>)],
     handled |-> TRUE]

eventFilter(w, sender, event) ==
    IF event.type \in {"Enter", "Leave"}
    THEN [w |-> [w EXCEPT !.signals = Append(@, "mouse_hover_changed"),
                          !.payloads = Append(@, <<<<sender, event>>>>)],
          handled |-> TRUE]
    ELSE [w |-> w, handled |-> FALSE]

\* The application's only top-level window being closed, the toolkit's
\* quit-on-last-window-closed asks the event loop to exit.
LastWindowClosed(w) == ~w.visible

\* A start that launches two threads.
QThread_start_twice(n) == n + 2

\* QThread.start(): one more thread has been launched.
QThread_start(n) == n + 1

\* A loader that shows or hides the window from the worker thread.
Loader_work_touches_window(w) == [w EXCEPT !.visible = ~@]

\* What the loader does to the window while its thread runs: Loader has no
\* slot, no signal and no reference to the window, so nothing.
Loader_work(w) == w

\* QThread.quit(): asks the thread's event loop to exit.
QThread_quit(flag) == TRUE

\* A quit handler that shuts nothing down.
Application_quit_forgets_thread(flag) == flag

\* Application.quit: quits the loader thread; nothing else.
Application_quit(flag) == QThread_quit(flag)

(***************************************************************************)
(* main(): launch, start-up, event loop, return                            *)
(***************************************************************************)
Init ==
    /\ argv \in CommandLines
    /\ args = EmptyNamespace
    /\ app_args = <<>>
    /\ pc = "start"
    /\ retval = NotReturned
    /\ uncaught = "none"
    /\ exitStatus = 0
    /\ errlog = <<>>
    /\ stdout = <<>>
    /\ console = FALSE
    /\ qapp = FALSE
    /\ aboutToQuitSlots = <<>>
    /\ aboutToQuitFired = FALSE
    /\ quitRequested = FALSE
    /\ execResult = -1
    /\ thread = "notcreated"
    /\ exited = FALSE
    /\ win = NoWindow
    /\ connections = <<>>
    /\ clicks = <<>>
    /\ emitted = <<>>
    /\ log = <<>>
    /\ lastOp = "none"
    /\ everShown = FALSE
    /\ nEvents = 0
    /\ threadStarts = 0
    /\ quitCalls = 0
    /\ tree = NoTree
    /\ objects = <<>>
    /\ trace = <<>>
    /\ handled = FALSE
    /\ lastEvent = NoEvent

\* main, line 182: args = parse_args(). The parser leaves through SystemExit
\* on help and on a command line it rejects.
ParseArgs ==
    /\ pc = "start"
    /\ LET r == parse_args(argv)
       IN  IF r.outcome = "ok"
           THEN /\ args' = r.ns
                /\ pc' = "parsed"
                /\ UNCHANGED resultVars
           ELSE /\ MainRaises("SystemExit", r.status)
                /\ UNCHANGED args
    /\ UNCHANGED <<argv, app_args, outVars, qapp, loopVars, threadVars, winVars, clickVars>>

\* main, line 185: qapp = QApplication(sys.argv).
CreateQApplication ==
    /\ pc = "parsed"
    /\ qapp' = TRUE
    /\ pc' = "qapp"
    /\ UNCHANGED <<argVars, outVars, resultVars, loopVars, threadVars, winVars, clickVars>>

\* Application.__init__, lines 75-85: keep the arguments, create the loader,
\* move it to a new thread and start the thread.
ApplicationInit_StartThread ==
    /\ pc = "qapp"
    /\ app_args' = <<args>>
    /\ thread' = "starting"
    /\ threadStarts' = QThread_start(threadStarts)
    /\ pc' = "app_thread"
    /\ UNCHANGED <<argv, args, outVars, resultVars, qapp, loopVars, exited, quitCalls,
                   winVars, clickVars>>

\* Application.__init__, line 88: self._mainwindow = MainWindow().
ApplicationInit_MainWindow ==
    /\ pc = "app_thread"
    /\ win' = NewWindow
    /\ connections' = MainWindow_connections
    /\ tree' = setup_ui(tree)
    /\ objects' = MainWindow_objects
    /\ lastOp' = "construct"
    /\ pc' = "app_window"
    /\ UNCHANGED <<argVars, outVars, resultVars, qapp, loopVars, threadVars, everShown,
                   filterVars, clickVars>>

\* Application.__init__, lines 89-94: show the window, _connect_slots (which
\* connects nothing).
ApplicationInit_Show ==
    /\ pc = "app_window"
    /\ win' = show(win)
    /\ everShown' = TRUE
    /\ lastOp' = "show"
    /\ pc' = "app_shown"
    /\ UNCHANGED <<argVars, outVars, resultVars, qapp, loopVars, threadVars, builtVars,
                   filterVars, clickVars>>

\* main, line 188: qapp.aboutToQuit.connect(app.quit).
ConnectAboutToQuit ==
    /\ pc = "app_shown"
    /\ aboutToQuitSlots' = Append(aboutToQuitSlots, "Application.quit")
    /\ pc' = "connected"
    /\ UNCHANGED <<argVars, outVars, resultVars, qapp, aboutToQuitFired, quitRequested,
                   execResult, threadVars, winVars, clickVars>>

\* main, line 190: qapp.exec_() enters the event loop.
Exec ==
    /\ pc = "connected"
    /\ pc' = "exec"
    /\ UNCHANGED <<argVars, outVars, resultVars, qapp, loopVars, threadVars, winVars, clickVars>>

\* The steps of main between parse_args and exec_ that construct objects.
FalliblePcs == {"parsed", "qapp", "app_thread", "app_window"}

\* One of the constructing steps raises: QApplication(), Loader()/QThread(),
\* MainWindow() or show().
StartupRaises ==
    /\ pc \in FalliblePcs
    /\ MainRaises("Exception", 1)
    /\ UNCHANGED <<argVars, outVars, qapp, loopVars, threadVars, winVars, clickVars>>

\* The user clicks navigation button b: clicked reaches the view's slot, which
\* emits the view's notification, which reaches the controller's handler.
ClickEffect(b) ==
    /\ clicks' = Append(clicks, b)
    /\ emitted' = emitted \o NotificationsFired(connections, b)
    /\ log' = log \o HandlersRunByClick(connections, b)
    /\ nEvents' = nEvents + 1
    /\ lastOp' = "click"
    /\ trace' = trace \o ClickTrace(connections, b)
    /\ UNCHANGED <<win, builtVars, everShown, filterVars>>

Click(b) ==
    /\ pc = "exec" /\ win.visible /\ nEvents < MaxEvents
    /\ ClickEffect(b)
    /\ UNCHANGED <<argVars, outVars, resultVars, pc, qapp, loopVars, threadVars>>

\* The user presses a key with the window focused.
KeyPress ==
    /\ pc = "exec" /\ win.visible /\ nEvents < MaxEvents
    /\ \E event \in KeyEvents :
          /\ win' = keyPressEvent(win, event)
          /\ lastEvent' = Delivered("TensorBuilder", event)
    /\ lastOp' = "key"
    /\ nEvents' = nEvents + 1
    /\ UNCHANGED <<argVars, outVars, resultVars, pc, qapp, loopVars, threadVars,
                   builtVars, everShown, handled, clicks, emitted, log, trace>>

\* The user releases a mouse button over the window.
MouseRelease ==
    /\ pc = "exec" /\ win.visible /\ nEvents < MaxEvents
    /\ \E event \in MouseEvents :
          /\ win' = mouseReleaseEvent(win, event)
          /\ lastEvent' = Delivered("TensorBuilder", event)
    /\ lastOp' = "mouse"
    /\ nEvents' = nEvents + 1
    /\ UNCHANGED <<argVars, outVars, resultVars, pc, qapp, loopVars, threadVars,
                   builtVars, everShown, handled, clicks, emitted, log, trace>>

\* The user closes the window: the close event is delivered, the window is
\* hidden and, no window being left, the event loop is asked to exit.
UserClose ==
    /\ pc = "exec" /\ win.visible
    /\ win' = close(win)
    /\ lastOp' = "close"
    /\ lastEvent' = Delivered("TensorBuilder", QCloseEvent)
    /\ quitRequested' = (quitRequested \/ LastWindowClosed(win'))
    /\ trace' = Append(trace, <<"close", "window">>)
    /\ UNCHANGED <<argVars, outVars, resultVars, pc, qapp, aboutToQuitSlots,
                   aboutToQuitFired, execResult, threadVars, builtVars, everShown,
                   handled, clicks, emitted, log, nEvents>>

\* The event loop exits: aboutToQuit is emitted, its slots run (Application.quit),
\* and exec_ yields the exit code of quit(), which is 0.
AboutToQuit ==
    /\ pc = "exec" /\ quitRequested
    /\ aboutToQuitFired' = TRUE
    /\ exited' = IF \E i \in DOMAIN aboutToQuitSlots : aboutToQuitSlots[i] = "Application.quit"
                 THEN Application_quit(exited)
                 ELSE exited
    /\ quitCalls' = quitCalls + Cardinality({i \in DOMAIN aboutToQuitSlots :
                                                aboutToQuitSlots[i] = "Application.quit"})
    /\ execResult' = 0
    /\ pc' = "exec_done"
    /\ trace' = Append(trace, <<"quit", "application">>)
    /\ UNCHANGED <<argVars, outVars, resultVars, qapp, aboutToQuitSlots, quitRequested,
                   thread, threadStarts, winVars, clicks, emitted, log, nEvents>>

\* main, line 190: return qapp.exec_().
MainReturn ==
    /\ pc = "exec_done"
    /\ retval' = ReturnedInt(execResult)
    /\ pc' = "returned"
    /\ UNCHANGED <<argVars, outVars, uncaught, exitStatus, errlog, qapp, loopVars,
                   threadVars, winVars, clickVars>>

(***************************************************************************)
(* The worker thread                                                       *)
(***************************************************************************)
\* A thread whose event loop forgets a quit requested before it was entered.
ThreadRun_loses_early_quit ==
    /\ thread = "starting"
    /\ thread' = "running"
    /\ exited' = FALSE
    /\ UNCHANGED <<argVars, outVars, resultVars, pc, qapp, loopVars, threadStarts,
                   quitCalls, winVars, clickVars>>

\* The started thread enters its event loop; a quit requested before it got
\* there makes the loop return at once.
ThreadRun ==
    /\ thread = "starting"
    /\ thread' = IF exited THEN "finished" ELSE "running"
    /\ win' = Loader_work(win)
    /\ UNCHANGED <<argVars, outVars, resultVars, pc, qapp, loopVars, exited, threadStarts,
                   quitCalls, builtVars, lastOp, everShown, filterVars, clickVars>>

\* The thread's event loop sees the quit request and the thread finishes.
ThreadFinish ==
    /\ thread = "running"
    /\ exited
    /\ thread' = "finished"
    /\ win' = Loader_work(win)
    /\ UNCHANGED <<argVars, outVars, resultVars, pc, qapp, loopVars, exited, threadStarts,
                   quitCalls, builtVars, lastOp, everShown, filterVars, clickVars>>

MainStep ==
    \/ ParseArgs
    \/ CreateQApplication
    \/ ApplicationInit_StartThread
    \/ ApplicationInit_MainWindow
    \/ ApplicationInit_Show
    \/ ConnectAboutToQuit
    \/ Exec
    \/ StartupRaises
    \/ AboutToQuit
    \/ MainReturn

UserStep ==
    \/ \E b \in ButtonSet : Click(b)
    \/ KeyPress
    \/ MouseRelease
    \/ UserClose

ThreadStep == ThreadRun \/ ThreadFinish

Next == MainStep \/ UserStep \/ ThreadStep

Spec == Init /\ [][Next]_vars

\* The operating system schedules the worker thread, and the main thread runs
\* on once the event loop has been asked to exit.
LiveSpec ==
    /\ Spec
    /\ WF_vars(ThreadStep)
    /\ WF_vars(AboutToQuit)
    /\ WF_vars(MainReturn)

(***************************************************************************)
(* A MainWindow on its own, driven through its public operations           *)
(***************************************************************************)
\* A QApplication exists and MainWindow() has just been constructed.
WinInit ==
    /\ argv = <<>>
    /\ args = EmptyNamespace
    /\ app_args = <<>>
    /\ pc = "window"
    /\ retval = NotReturned
    /\ uncaught = "none"
    /\ exitStatus = 0
    /\ errlog = <<>>
    /\ stdout = <<>>
    /\ console = FALSE
    /\ qapp = TRUE
    /\ aboutToQuitSlots = <<>>
    /\ aboutToQuitFired = FALSE
    /\ quitRequested = FALSE
    /\ execResult = -1
    /\ thread = "notcreated"
    /\ exited = FALSE
    /\ win = NewWindow
    /\ connections = MainWindow_connections
    /\ clicks = <<>>
    /\ emitted = <<>>
    /\ log = <<>>
    /\ lastOp = "construct"
    /\ everShown = FALSE
    /\ nEvents = 0
    /\ threadStarts = 0
    /\ quitCalls = 0
    /\ tree = setup_ui(NoTree)
    /\ objects = MainWindow_objects
    /\ trace = <<>>
    /\ handled = FALSE
    /\ lastEvent = NoEvent

appVars == <<argVars, outVars, resultVars, pc, qapp, aboutToQuitSlots, aboutToQuitFired,
             execResult, threadVars>>

\* MainWindow.show().
WinShow ==
    /\ win.constructed
    /\ win' = show(win)
    /\ everShown' = TRUE
    /\ lastOp' = "show"
    /\ UNCHANGED <<appVars, quitRequested, builtVars, filterVars, clickVars>>

\* MainWindow.close().
WinClose ==
    /\ win.constructed /\ nEvents < MaxEvents
    /\ win' = close(win)
    /\ lastOp' = "close"
    /\ quitRequested' = (quitRequested \/ LastWindowClosed(win'))
    /\ nEvents' = nEvents + 1
    /\ lastEvent' = Delivered("TensorBuilder", QCloseEvent)
    /\ trace' = Append(trace, <<"close", "window">>)
    /\ UNCHANGED <<appVars, builtVars, everShown, handled, clicks, emitted, log>>

\* A navigation button is clicked.
WinClick(b) ==
    /\ win.constructed /\ nEvents < MaxEvents
    /\ ClickEffect(b)
    /\ UNCHANGED <<appVars, quitRequested>>

\* keyPressEvent is delivered.
WinKeyPress ==
    /\ win.constructed /\ nEvents < MaxEvents
    /\ \E event \in KeyEvents :
          /\ win' = keyPressEvent(win, event)
          /\ lastEvent' = Delivered("TensorBuilder", event)
    /\ lastOp' = "key"
    /\ nEvents' = nEvents + 1
    /\ UNCHANGED <<appVars, quitRequested, builtVars, everShown, handled, clicks,
                   emitted, log, trace>>

\* mouseReleaseEvent is delivered.
WinMouseRelease ==
    /\ win.constructed /\ nEvents < MaxEvents
    /\ \E event \in MouseEvents :
          /\ win' = mouseReleaseEvent(win, event)
          /\ lastEvent' = Delivered("TensorBuilder", event)
    /\ lastOp' = "mouse"
    /\ nEvents' = nEvents + 1
    /\ UNCHANGED <<appVars, quitRequested, builtVars, everShown, handled, clicks,
                   emitted, log, trace>>

\* eventFilter is called with an event meant for the widget sender.
WinEventFilter(sender, event) ==
    /\ win.constructed /\ nEvents < MaxEvents
    /\ win' = eventFilter(win, sender, event).w
    /\ handled' = eventFilter(win, sender, event).handled
    /\ lastEvent' = Delivered(sender, event)
    /\ lastOp' = "filter"
    /\ nEvents' = nEvents + 1
    /\ UNCHANGED <<appVars, quitRequested, builtVars, everShown, clicks, emitted, log, trace>>

WinNext ==
    \/ WinShow
    \/ WinClose
    \/ \E b \in ButtonSet : WinClick(b)
    \/ WinKeyPress
    \/ WinMouseRelease
    \/ \E sender \in Senders, event \in FilterEvents : WinEventFilter(sender, event)

WinSpec == WinInit /\ [][WinNext]_vars

(***************************************************************************)
(* A running Application whose quit() is called from the main thread       *)
(***************************************************************************)
\* main has built the QApplication and the Application, connected
\* aboutToQuit and entered exec_; the worker thread was started and may not
\* have entered its event loop yet.
AppInit ==
    /\ argv = <<>>
    /\ args = EmptyNamespace
    /\ app_args = <<EmptyNamespace>>
    /\ pc = "exec"
    /\ retval = NotReturned
    /\ uncaught = "none"
    /\ exitStatus = 0
    /\ errlog = <<>>
    /\ stdout = <<>>
    /\ console = FALSE
    /\ qapp = TRUE
    /\ aboutToQuitSlots = <<"Application.quit">>
    /\ aboutToQuitFired = FALSE
    /\ quitRequested = FALSE
    /\ execResult = -1
    /\ thread = "starting"
    /\ exited = FALSE
    /\ threadStarts = QThread_start(0)
    /\ quitCalls = 0
    /\ win = show(NewWindow)
    /\ connections = MainWindow_connections
    /\ tree = setup_ui(NoTree)
    /\ objects = MainWindow_objects
    /\ clicks = <<>>
    /\ emitted = <<>>
    /\ log = <<>>
    /\ trace = <<>>
    /\ lastOp = "show"
    /\ everShown = TRUE
    /\ nEvents = 0
    /\ handled = FALSE
    /\ lastEvent = NoEvent

\* Application.quit() is called.
AppQuit ==
    /\ quitCalls < MaxQuits
    /\ exited' = Application_quit(exited)
    /\ quitCalls' = quitCalls + 1
    /\ UNCHANGED <<argVars, outVars, resultVars, pc, qapp, loopVars, thread, threadStarts,
                   winVars, clickVars>>

AppNext ==
    \/ AppQuit
    \/ ThreadStep
    \/ \E b \in ButtonSet : Click(b)
    \/ KeyPress
    \/ MouseRelease

AppSpec == AppInit /\ [][AppNext]_vars

\* The operating system schedules the worker thread.
AppLiveSpec == AppSpec /\ WF_vars(ThreadStep)

(***************************************************************************)
(* Properties                                                              *)
(***************************************************************************)
HasFlag(av, flags) == \E i \in DOMAIN av : av[i] \in flags

KnownFlags == VersionFlags \cup VerboseFlags \cup HelpFlags

\* A command line the parser rejects: an option it does not know, and no help
\* flag to make it exit first.
Rejected(av) == HasFlag(av, Tokens \ KnownFlags) /\ ~HasFlag(av, HelpFlags)

\* C1: launched with -v/--version, main prints the version and exits: the
\* worker thread is never started, the main window is never constructed or
\* shown and the event loop is never entered.
C1_VersionPrintsAndExits ==
    args.version =>
        /\ thread = "notcreated"
        /\ ~win.constructed
        /\ ~win.visible
        /\ pc \notin {"exec", "exec_done"}
        /\ (pc = "returned" => stdout # <<>>)

C3_ClickFiresOnce ==
    /\ emitted = [i \in DOMAIN clicks |-> ViewSignal(clicks[i])]
    /\ log = [i \in DOMAIN clicks |-> LogLine(clicks[i])]

C3_Witness ==
    /\ clicks = <<"home", "help">>
    /\ emitted = <<"home_button_clicked", "help_button_clicked">>
    /\ log = <<"User clicked on the home button", "User clicked on the help button">>

\* A step that is a call of close() on the window.
CloseStep == lastOp' = "close" /\ nEvents' = nEvents + 1

\* What close() leaves alone.
CloseFrame ==
    /\ UNCHANGED <<clicks, emitted, log, connections, everShown>>
    /\ UNCHANGED <<appVars>>

\* C4 as stated: close() leaves the window hidden, and before any show() it is
\* a no-op: no notification is emitted and no quit is triggered.
C4_CloseBeforeShowIsNoOp ==
    [][CloseStep =>
        /\ ~win'.visible
        /\ CloseFrame
        /\ (~everShown => win' = win /\ quitRequested' = quitRequested)]_vars

\* C4 as amended: close() leaves the window hidden, after show() and before
\* any show() alike, raises nothing and leaves the clicks, notifications, log,
\* connections and worker thread alone; it always delivers the close event, so
\* the window's closed signal is emitted once, also before any show().
C4_CloseHidesAndEmitsClosed ==
    [][CloseStep =>
        /\ ~win'.visible
        /\ CloseFrame
        /\ win'.signals = Append(win.signals, "closed")]_vars

C4_Witness == lastOp = "close" /\ ~everShown /\ ~win.visible /\ win.signals = <<"closed">>

\* C5: the window is either hidden or shown, and its visibility changes only
\* in a show() step (to shown) or a close() step (to hidden): clicks, key
\* presses, mouse releases, filtered events and handlers leave it as it is.
C5_VisibilityOnlyByShowClose ==
    /\ [](win.visible \in BOOLEAN)
    /\ [][win'.visible # win.visible =>
            \/ lastOp' = "show" /\ win'.visible
            \/ lastOp' = "close" /\ ~win'.visible]_vars

C5_Witness ==
    /\ win.visible
    /\ clicks # <<>>
    /\ lastOp = "key"
    /\ win.signals = <<"keypressed">>

\* C6: parse_args returns version exactly when -v/--version is on the command
\* line and verbose exactly when -V/--verbose is; parsing changes nothing but
\* main's args; the arguments the Application stored are those and never change.
C6_ParseArgsFlags ==
    /\ []((pc # "start" /\ uncaught = "none" /\ errlog = <<>>) =>
            /\ args.version = HasFlag(argv, {"-v", "--version"})
            /\ args.verbose = HasFlag(argv, {"-V", "--verbose"}))
    /\ [](app_args # <<>> => app_args = <<args>>)
    /\ [][(pc = "start" /\ pc' = "parsed") =>
            UNCHANGED <<argv, app_args, outVars, resultVars, qapp, loopVars,
                        threadVars, winVars, clickVars>>]_vars
    /\ [][pc # "start" => args' = args]_vars
    /\ [][app_args # <<>> => app_args' = app_args]_vars

C6_Witness ==
    /\ argv = <<"-V">>
    /\ pc = "exec"
    /\ app_args = <<[version |-> FALSE, verbose |-> TRUE]>>

\* C7: launched with -V/--verbose a console is attached before the window is
\* shown; launched without it, none is.
C7_VerboseAttachesConsole ==
    /\ (win.visible /\ args.verbose) => console
    /\ ~HasFlag(argv, VerboseFlags) => ~console

\* C8: whenever main returns, the value it hands back is the value exec_
\* yielded.
C8_ReturnsExecValue ==
    pc = "returned" => (aboutToQuitFired /\ retval = ReturnedInt(execResult))

C10_RejectedCommandLineExits ==
    (Rejected(argv) /\ pc # "start") =>
        /\ pc = "propagated"
        /\ uncaught = "SystemExit"
        /\ exitStatus = 2
        /\ ~qapp
        /\ thread = "notcreated"
        /\ ~win.constructed
        /\ errlog = <<>>
        /\ retval = NotReturned

C10_Witness ==
    /\ argv = <<"-v", "--bogus">>
    /\ pc = "propagated"
    /\ exitStatus = 2


\* C11: exactly one worker thread is ever created and started: it is started
\* once, by the Application constructor, before the main window is built, and
\* no click, show, close or quit starts another thread or restarts the
\* stopped one.
C11_OneWorkerThreadStartedOnce ==
    /\ [](threadStarts <= 1)
    /\ []((thread # "notcreated") <=> (threadStarts = 1))
    /\ [](win.constructed => threadStarts = 1)
    /\ [][threadStarts' # threadStarts
            => pc = "qapp" /\ pc' = "app_thread" /\ ~win.constructed /\ thread = "notcreated"]_vars
    /\ [][thread = "finished" => thread' = "finished"]_vars

\* A launch that went through clicks, a close and the quit: the thread started
\* once and has stopped.
C11_Witness ==
    /\ pc = "returned" /\ thread = "finished" /\ threadStarts = 1
    /\ Len(clicks) > 0 /\ lastOp = "close" /\ quitCalls = 1

\* The widgets setup_ui creates.
WidgetNames ==
    {"central_widget", "menubar", "navbar", "main_container", "app_logo",
     "menubar_main_container", "copyright_label"} \cup {ObjectName(b) : b \in ButtonSet}

GridPlace(w, row, col, rowSpan, colSpan) ==
    [widget |-> w, row |-> row, col |-> col, rowSpan |-> rowSpan, colSpan |-> colSpan]

\* C12: the widget tree is built once, with the view: one menu bar on the top
\* row across both columns, one navigation bar bottom-left holding the four
\* buttons and one label, one content panel bottom-right; every widget has one
\* parent, and show, close and click leave the tree as construction made it.
C12_WidgetTreeBuiltOnce ==
    /\ [](win.constructed =>
            /\ tree.builds = 1
            /\ DOMAIN tree.parent = WidgetNames
            /\ Children(tree, "TensorBuilder") = {"central_widget"}
            /\ Children(tree, "central_widget") = {"menubar", "navbar", "main_container"}
            /\ Children(tree, "navbar")
                 = {ObjectName(b) : b \in ButtonSet} \cup {"copyright_label"}
            /\ Cardinality(Children(tree, "navbar") \ {"copyright_label"}) = 4
            /\ Children(tree, "menubar") = {"app_logo", "menubar_main_container"}
            /\ Children(tree, "main_container") = {}
            /\ tree.grid = {GridPlace("menubar", 0, 0, 1, 2),
                            GridPlace("navbar", 1, 0, 1, 1),
                            GridPlace("main_container", 1, 1, 1, 1)})
    /\ [][win.constructed => tree' = tree]_vars

\* The window was shown, a button was clicked and the window was closed; the
\* navigation bar is still the central widget's child.
C12_Witness ==
    /\ lastOp = "close" /\ everShown /\ Len(clicks) > 0
    /\ tree.builds = 1 /\ tree.parent["navbar"] = "central_widget"

\* A step of the worker thread.
WorkerStep == thread # "notcreated" /\ thread' # thread

\* C13: the widget tree, the window and the view and controller objects are
\* touched by the main thread only: a step of the worker thread changes
\* nothing but the thread's own state, and no subscription delivers to an
\* object living on the worker thread.
C13_WorkerSharesNoState ==
    /\ [][WorkerStep =>
            UNCHANGED <<argVars, outVars, resultVars, pc, qapp, loopVars, exited,
                        threadStarts, quitCalls, winVars, clickVars>>]_vars
    /\ [](\A i \in DOMAIN connections :
            /\ ThreadOf(connections[i].sender) = "main"
            /\ ThreadOf(connections[i].receiver) = "main")

\* The worker thread is in its event loop while the main thread has shown the
\* window and handled a click.
C13_Witness ==
    /\ thread = "running" /\ pc = "exec" /\ win.visible /\ Len(clicks) > 0


\* The entries of the delivery record that begin or end the processing of an
\* event.
Boundary(e) == e[1] \in {"click", "done", "close", "quit"}

\* C14: notifications are delivered synchronously: the controller's handler
\* for a click runs inside the processing of that click, before any later
\* click, close or quit is processed, so the log lines name the clicked
\* buttons in click order.
C14_HandlersRunInsideTheirClick ==
    LET logs == SelectSeq(trace, LAMBDA e : e[1] = "log")
    IN  /\ [k \in DOMAIN logs |-> logs[k][2]] = [k \in DOMAIN clicks |-> LogLine(clicks[k])]
        /\ \A i \in DOMAIN trace :
              trace[i][1] = "log" =>
                 \E j \in 1..(i - 1), k \in (i + 1)..Len(trace) :
                    /\ trace[j][1] = "click"
                    /\ trace[k] = <<"done", trace[j][2]>>
                    /\ trace[i][2] = LogLine(trace[j][2])
                    /\ \A m \in (j + 1)..(k - 1) : ~Boundary(trace[m])

\* Two different buttons were clicked, then the window was closed and the
\* application quit.
C14_Witness ==
    /\ Len(clicks) = 2 /\ clicks[1] # clicks[2]
    /\ Len(trace) > 2
    /\ trace[Len(trace) - 1] = <<"close", "window">>
    /\ trace[Len(trace)] = <<"quit", "application">>

\* C15: constructing the controller creates one model and one view and
\* subscribes one handler to each of the view's four notifications; a handler
\* only logs its line: the model, the window's hidden or shown state, the
\* widget tree, the subscriptions and the worker thread stay as they were.
C15_ControllerOneModelOneViewFourHandlers ==
    /\ [](win.constructed =>
            /\ Cardinality({i \in DOMAIN objects : objects[i] = "MainWindowModel"}) = 1
            /\ Cardinality({i \in DOMAIN objects : objects[i] = "MainWindowView"}) = 1
            /\ \A b \in ButtonSet :
                  LET r == Receivers(connections, "view", ViewSignal(b))
                  IN  /\ Len(r) = 1
                      /\ r[1].receiver = "controller"
                      /\ r[1].slot = ControllerSlot(b))
    /\ [][\A b \in ButtonSet :
            clicks' = Append(clicks, b) =>
               /\ log' = Append(log, LogLine(b))
               /\ UNCHANGED <<objects, win, tree, connections, threadVars, everShown>>]_vars

\* The controller exists, the worker thread runs, and one click has been
\* handled.
C15_Witness ==
    /\ win.constructed /\ thread = "running"
    /\ Len(clicks) = 1 /\ log = <<LogLine(clicks[1])>>

\* The window handled one more event, of the kind op.
EventStep(op) == lastOp' = op /\ nEvents' = nEvents + 1

\* The window emitted the signal sig once, carrying payload, and nothing else.
EmitsOnce(sig, payload) ==
    /\ win'.signals = Append(win.signals, sig)
    /\ win'.payloads = Append(win.payloads, payload)

\* C16: the window class turns each event into one emission of the matching
\* signal carrying that event: closed for a close event, keypressed for a key
\* press, mouse_released for a mouse release; the event filter emits
\* mouse_hover_changed with the pair (sender, event) and reports the event
\* handled exactly for enter and leave events, and for any other event emits
\* nothing and reports it not handled.
C16_EventsBecomeSignals ==
    [][/\ EventStep("close") => EmitsOnce("closed", <<lastEvent'.event>>)
       /\ EventStep("key") => EmitsOnce("keypressed", <<lastEvent'.event>>)
       /\ EventStep("mouse") => EmitsOnce("mouse_released", <<lastEvent'.event>>)
       /\ EventStep("filter") =>
             IF lastEvent'.event.type \in {"Enter", "Leave"}
             THEN /\ EmitsOnce("mouse_hover_changed",
                               <<<<lastEvent'.sender, lastEvent'.event>>>>)
                  /\ handled'
             ELSE /\ win'.signals = win.signals
                  /\ win'.payloads = win.payloads
                  /\ ~handled']_vars

\* A key press, then a leave event seen by the filter: two emissions, the
\* second carrying the sender and the event, reported handled.
C16_Witness ==
    /\ lastOp = "filter" /\ handled /\ lastEvent.event.type = "Leave"
    /\ win.signals = <<"keypressed", "mouse_hover_changed">>
    /\ win.payloads[2] = <<<<lastEvent.sender, lastEvent.event>>>>


\* C17: whenever main returns after the worker thread was started, the thread
\* has been asked to quit, also when building or showing the main window
\* raised and the exception was caught before the quit handler was connected.
C17_ThreadAskedToQuitBeforeReturn ==
    (pc = "returned" /\ threadStarts > 0) => (quitCalls > 0 /\ exited)

\* A call of Application.quit after the first.
SecondQuit == quitCalls >= 1 /\ quitCalls' = quitCalls + 1

\* C18: the quit request is not lost to a race with the thread's start-up and
\* is idempotent: once Application.quit has run, even before the worker thread
\* entered its event loop, the thread ends stopped; once stopped it stays
\* stopped; a second call of Application.quit leaves the state as the first
\* call left it.
C18_QuitNotLostAndIdempotent ==
    /\ (quitCalls > 0) ~> (thread = "finished")
    /\ [](quitCalls > 0 => exited)
    /\ [][thread = "finished" => thread' = "finished"]_vars
    /\ [][SecondQuit =>
            UNCHANGED <<argVars, outVars, resultVars, pc, qapp, loopVars, thread, exited,
                        threadStarts, winVars, clickVars>>]_vars

\* Application.quit has run twice and the worker thread has not entered its
\* event loop yet.
C18_Witness == thread = "starting" /\ exited /\ quitCalls = 2

====
